---- MODULE Spec2Model ----
(***************************************************************************)
(* Model of custom_components/roborock/vacuum.py: the RoborockVacuum       *)
(* entity, one per device of a shared RoborockClient.                      *)
(*                                                                         *)
(* Python values are tagged records: None, int, str, list, dict.  A dict   *)
(* payload is a function whose DOMAIN is the set of keys present.  A       *)
(* lookup table (FAN_SPEEDS, STATE_CODE_TO_STRING) is a sequence of        *)
(* <<code, label>> pairs with pairwise distinct codes: a Python dict in    *)
(* insertion order, which is the order .values() and .items() iterate in.  *)
(***************************************************************************)
EXTENDS Integers, Sequences, FiniteSets

VARIABLES
    _client,              \* the shared RoborockClient (self._client of every entity)
    _device,              \* entity -> device descriptor (self._device)
    _status,              \* entity -> snapshot dict payload (self._status)
    FAN_SPEEDS,           \* the static fan-speed table of the api module
    STATE_CODE_TO_STRING, \* the static state-code table of the api module
    lastOp,               \* name of the operation the last step performed
    lastEntity,           \* the entity it was performed on
    lastArg,              \* its argument (set_fan_speed's label), else None
    sent,                 \* the requests that operation passed to send_request
    reply,                \* what send_request answered (NoCall when none sent)
    returned,             \* the value the operation returned to the host
    raised,               \* TRUE when an exception left the operation
    lastMapping,          \* history: entity -> last dict answered to its update()
    mapReads,             \* history: number of reads of the map property
    mapRequests           \* history: number of requests those reads issued

vars == <<_client, _device, _status, FAN_SPEEDS, STATE_CODE_TO_STRING, lastOp, lastEntity,
          lastArg, sent, reply, returned, raised, lastMapping, mapReads, mapRequests>>

---------------------------------------------------------------------------
(* Bounds *)

\* snapshot fields and table keys hold codes 1..MaxCode
MaxCode == 2
\* the map property is read at most this many times
MaxMapReads == 2

---------------------------------------------------------------------------
(* Python values *)

None == [t |-> "none"]
PyInt(n) == [t |-> "int", v |-> n]
PyStr(s) == [t |-> "str", v |-> s]
PyList(s) == [t |-> "list", v |-> s]
PyDict(f) == [t |-> "dict", v |-> f]

\* outcomes of a call that are not values
Raise == [t |-> "raise"]
NoCall == [t |-> "nocall"]
KeyError == [t |-> "KeyError"]

\* isinstance(x, dict)
IsDict(x) == x.t = "dict"

Codes == 1..MaxCode
Keys == {"state", "battery", "fan_power"}
EmptyDict == [k \in {} |-> 0]

\* the status dicts with one of the given sets of fields present, each field
\* holding one of the given codes
Snapshots(fields, codes) == UNION {[D -> codes] : D \in fields}

\* values send_request can return that are not dicts
NonMappings == {None, PyList(<<>>), PyStr("error"), PyInt(0)}

---------------------------------------------------------------------------
(* Lookup tables *)

FanLabels == {"Silent", "Turbo"}
StateLabels == {"cleaning"}

RECURSIVE SeqsUpTo(_, _)
SeqsUpTo(S, n) ==
    IF n = 0 THEN {<<>>}
    ELSE LET shorter == SeqsUpTo(S, n - 1)
         IN  shorter \cup {Append(s, x) : s \in {q \in shorter : Len(q) = n - 1}, x \in S}

\* dicts from codes to labels, in every insertion order
Tables(codes, labels) ==
    {t \in SeqsUpTo(codes \X labels, Cardinality(codes)) :
        \A i, j \in 1..Len(t) : i # j => t[i][1] # t[j][1]}

TableKeys(table) == {table[i][1] : i \in 1..Len(table)}
TableLabels(table) == {table[i][2] : i \in 1..Len(table)}

\* table.get(key): key is a Python value; the label, or None
TableGet(table, key) ==
    IF key.t = "int" /\ key.v \in TableKeys(table)
    THEN PyStr((CHOOSE p \in {table[i] : i \in 1..Len(table)} : p[1] = key.v)[2])
    ELSE None

\* list(table.values())
TableValues(table) == [i \in 1..Len(table) |-> table[i][2]]

\* faulty variant: only the first code of the label
CodesFor_first(table, label) ==
    LET hits == {i \in 1..Len(table) : table[i][2] = label}
    IN  IF hits = {} THEN <<>>
        ELSE <<table[CHOOSE i \in hits : \A j \in hits : i <= j][1]>>

\* [k for k, v in table.items() if v == label]
CodesFor(table, label) ==
    LET F[i \in 0..Len(table)] ==
            IF i = 0 THEN <<>>
            ELSE IF table[i][2] = label THEN Append(F[i - 1], table[i][1]) ELSE F[i - 1]
    IN  F[Len(table)]

\* faulty variant: d[key], which raises KeyError when the key is absent
DictSubscript(d, key) == IF key \in DOMAIN d THEN PyInt(d[key]) ELSE KeyError

\* d.get(key): None when the key is absent
DictGet(d, key) == IF key \in DOMAIN d THEN PyInt(d[key]) ELSE None

---------------------------------------------------------------------------
(* The client and its devices *)

DeviceA == [duid |-> "duidA", name |-> "A"]
DeviceB == [duid |-> "duidB", name |-> "B"]

\* A client: its devices (coordinator.api.devices), and the fields and codes
\* of the status dicts its devices report.
Client(devices, fields, codes) == [devices |-> devices, fields |-> fields, codes |-> codes]

\* what a command other than the status query can be answered with
CommandReplies == NonMappings \cup {PyDict([k \in Keys |-> MaxCode])}

\* client.send_request(duid, command, params, True): every way the call can
\* end, a returned value or an exception
send_request(command) ==
    (IF command = "get_status"
     THEN NonMappings \cup {PyDict(f) : f \in Snapshots(_client.fields, _client.codes)}
     ELSE CommandReplies) \cup {Raise}

Entities == DOMAIN _device

\* faulty variant: every entity addresses the first device
Request_first(e, command, params) ==
    [duid |-> _device[1].duid, command |-> command, params |-> params,
     wait_for_response |-> TRUE]

\* the arguments send() passes to client.send_request
Request(e, command, params) ==
    [duid |-> _device[e].duid, command |-> command, params |-> params,
     wait_for_response |-> TRUE]

\* What one operation leaves behind: the requests it issued, the client's
\* outcome, and what reached the host.  No method catches anything, so an
\* exception raised in send_request or in a lookup leaves the operation.
Done(op, e, arg, requests, out, ret) ==
    /\ lastOp' = op
    /\ lastEntity' = e
    /\ lastArg' = arg
    /\ sent' = requests
    /\ reply' = out
    /\ raised' = (out = Raise \/ ret = KeyError)
    /\ returned' = IF out = Raise \/ ret = KeyError THEN None ELSE ret
    /\ UNCHANGED <<_client, _device, FAN_SPEEDS, STATE_CODE_TO_STRING>>

\* faulty variant: a command stores a dict answer as the new snapshot
Command_optimistic(op, e, keyword) ==
    \E out \in send_request(keyword) :
        /\ Done(op, e, None, <<Request(e, keyword, None)>>, out, None)
        /\ _status' = [_status EXCEPT ![e] = IF out.t = "dict" THEN out.v ELSE @]
        /\ UNCHANGED <<lastMapping, mapReads, mapRequests>>

\* a method that sends one command and returns nothing
Command(op, e, keyword) ==
    \E out \in send_request(keyword) :
        /\ Done(op, e, None, <<Request(e, keyword, None)>>, out, None)
        /\ UNCHANGED <<_status, lastMapping, mapReads, mapRequests>>

\* a property computed from the entity's fields alone
Property(op, e, value) ==
    /\ Done(op, e, None, <<>>, NoCall, value)
    /\ UNCHANGED <<_status, lastMapping, mapReads, mapRequests>>

---------------------------------------------------------------------------
(* RoborockVacuum *)

\* faulty variant: a failed refresh clears the snapshot
NewStatus_clear(old, updated_status) ==
    IF updated_status # None /\ IsDict(updated_status)
    THEN updated_status.v
    ELSE EmptyDict

\* faulty variant: a refresh merges the new fields into the old snapshot
NewStatus_merge(old, updated_status) ==
    IF updated_status # None /\ IsDict(updated_status)
    THEN [k \in DOMAIN old \cup DOMAIN updated_status.v |->
             IF k \in DOMAIN updated_status.v THEN updated_status.v[k] ELSE old[k]]
    ELSE old

\* the snapshot update() leaves, given the old one and send()'s result
NewStatus(old, updated_status) ==
    IF updated_status # None /\ IsDict(updated_status)
    THEN updated_status.v
    ELSE old

update(e) ==
    \E out \in send_request("get_status") :
        /\ _status' = [_status EXCEPT ![e] = NewStatus(@, out)]
        /\ lastMapping' = [lastMapping EXCEPT ![e] = IF out.t = "dict" THEN out.v ELSE @]
        /\ Done("update", e, None, <<Request(e, "get_status", None)>>, out, None)
        /\ UNCHANGED <<mapReads, mapRequests>>

\* STATE_CODE_TO_STRING.get(self._status.get("state"))
StatusLabel(snapshot) ==
    LET code == DictGet(snapshot, "state")
    IN  IF code = KeyError THEN KeyError ELSE TableGet(STATE_CODE_TO_STRING, code)

\* FAN_SPEEDS.get(self._status.get("fan_power"))
FanSpeedLabel(snapshot) ==
    LET code == DictGet(snapshot, "fan_power")
    IN  IF code = KeyError THEN KeyError ELSE TableGet(FAN_SPEEDS, code)

status(e) == Property("status", e, StatusLabel(_status[e]))

state(e) == Property("state", e, StatusLabel(_status[e]))

battery_level(e) == Property("battery_level", e, DictGet(_status[e], "battery"))

fan_speed(e) == Property("fan_speed", e, FanSpeedLabel(_status[e]))

fan_speed_list(e) == Property("fan_speed_list", e, PyList(TableValues(FAN_SPEEDS)))

\* faulty variant: the map is fetched once and then served from the last read
map_cached(e) ==
    IF lastOp = "map" /\ lastEntity = e /\ ~raised
    THEN /\ mapReads < MaxMapReads
         /\ mapReads' = mapReads + 1
         /\ Done("map", e, None, <<>>, reply, returned)
         /\ UNCHANGED <<_status, lastMapping, mapRequests>>
    ELSE \E out \in send_request("get_map_v1") :
            /\ mapReads < MaxMapReads
            /\ mapReads' = mapReads + 1
            /\ mapRequests' = mapRequests + 1
            /\ Done("map", e, None, <<Request(e, "get_map_v1", None)>>, out, out)
            /\ UNCHANGED <<_status, lastMapping>>

map(e) ==
    \E out \in send_request("get_map_v1") :
        /\ mapReads < MaxMapReads
        /\ mapReads' = mapReads + 1
        /\ mapRequests' = mapRequests + 1
        /\ Done("map", e, None, <<Request(e, "get_map_v1", None)>>, out, out)
        /\ UNCHANGED <<_status, lastMapping>>

start(e) == Command("start", e, "app_start")

\* faulty variant: pause sends the pause keyword
pause_app_pause(e) == Command("pause", e, "app_pause")

pause(e) == Command("pause", e, "app_stop")

stop(e) == Command("stop", e, "app_stop")

return_to_base(e) == Command("return_to_base", e, "app_charge")

clean_spot(e) == Command("clean_spot", e, "app_spot")

locate(e) == Command("locate", e, "find_me")

start_pause(e) == Command("start_pause", e, "app_pause")

\* the labels the host may ask for
RequestedLabels == FanLabels \cup {"NoSuchLabel"}

set_fan_speed(e) ==
    \E fan_speed_arg \in RequestedLabels, out \in send_request("set_custom_mode") :
        /\ Done("set_fan_speed", e, PyStr(fan_speed_arg),
                <<Request(e, "set_custom_mode", PyList(CodesFor(FAN_SPEEDS, fan_speed_arg)))>>,
                out, None)
        /\ UNCHANGED <<_status, lastMapping, mapReads, mapRequests>>

\* the raw <<command, params>> calls the host passes through
RawCalls == {<<"get_status", None>>, <<"app_zoned_clean", PyList(<<1>>)>>}

send_command(e) ==
    \E call \in RawCalls :
      \E out \in send_request(call[1]) :
        /\ Done("send_command", e, None, <<Request(e, call[1], call[2])>>, out, out)
        /\ UNCHANGED <<_status, lastMapping, mapReads, mapRequests>>

---------------------------------------------------------------------------
(* Specifications *)

\* async_setup_entry and __init__: one entity per device of the client, each
\* with an empty snapshot
Setup(client) ==
    /\ _client = client
    /\ _device = client.devices
    /\ _status = [e \in DOMAIN client.devices |-> EmptyDict]
    /\ lastMapping = [e \in DOMAIN client.devices |-> EmptyDict]
    /\ lastOp = "__init__"
    /\ lastEntity = 1
    /\ lastArg = None
    /\ sent = <<>>
    /\ reply = NoCall
    /\ returned = None
    /\ raised = FALSE
    /\ mapReads = 0
    /\ mapRequests = 0

\* the tables of a device that knows code 1 only
OneCodeFanSpeeds == <<<<1, "Silent">>>>
OneCodeStates == <<<<1, "cleaning">>>>

\* one vacuum, reporting any status dict
Init ==
    /\ Setup(Client(<<DeviceA>>, SUBSET Keys, Codes))
    /\ FAN_SPEEDS = OneCodeFanSpeeds
    /\ STATE_CODE_TO_STRING = OneCodeStates

\* two vacuums on one client
InitMulti ==
    /\ Setup(Client(<<DeviceA, DeviceB>>, {{}, {"state", "battery"}, Keys}, {1}))
    /\ FAN_SPEEDS = OneCodeFanSpeeds
    /\ STATE_CODE_TO_STRING = OneCodeStates

\* one vacuum, under every fan-speed table
InitTables ==
    /\ Setup(Client(<<DeviceA>>, {Keys}, {1}))
    /\ FAN_SPEEDS \in Tables(Codes, FanLabels)
    /\ STATE_CODE_TO_STRING = OneCodeStates

Next ==
    \E e \in Entities :
        \/ update(e)
        \/ status(e)
        \/ state(e)
        \/ battery_level(e)
        \/ fan_speed(e)
        \/ fan_speed_list(e)
        \/ map(e)
        \/ start(e)
        \/ pause(e)
        \/ stop(e)
        \/ return_to_base(e)
        \/ clean_spot(e)
        \/ locate(e)
        \/ start_pause(e)
        \/ set_fan_speed(e)
        \/ send_command(e)

Spec == Init /\ [][Next]_vars

SpecMulti == InitMulti /\ [][Next]_vars

SpecTables == InitTables /\ [][Next]_vars

---------------------------------------------------------------------------
(* Claims *)

Range(q) == {q[i] : i \in 1..Len(q)}
NoDuplicates(q) == \A i, j \in 1..Len(q) : i # j => q[i] # q[j]

\* C1: when the status query answers a value that is not a dict, update()
\* leaves every key of the stored snapshot as it was.
C1_NonMappingKeepsSnapshot ==
    [][(lastOp' = "update" /\ reply' \in NonMappings) => _status' = _status]_vars

C1_Witness ==
    /\ lastOp = "update"
    /\ reply \in NonMappings
    /\ _status[lastEntity] # EmptyDict

\* C2: the snapshot is always the last dict answered to the entity's own
\* update() (empty before the first), and status, state, battery_level and
\* fan_speed are read from it alone: a field the last dict lacks reads as
\* None whatever an older snapshot held.
C2_DerivedFromLastMapping ==
    /\ \A e \in Entities : _status[e] = lastMapping[e]
    /\ lastOp \in {"status", "state"} =>
          returned = (IF "state" \in DOMAIN lastMapping[lastEntity]
                      THEN TableGet(STATE_CODE_TO_STRING, PyInt(lastMapping[lastEntity]["state"]))
                      ELSE None)
    /\ lastOp = "battery_level" =>
          returned = (IF "battery" \in DOMAIN lastMapping[lastEntity]
                      THEN PyInt(lastMapping[lastEntity]["battery"])
                      ELSE None)
    /\ lastOp = "fan_speed" =>
          returned = (IF "fan_power" \in DOMAIN lastMapping[lastEntity]
                      THEN TableGet(FAN_SPEEDS, PyInt(lastMapping[lastEntity]["fan_power"]))
                      ELSE None)

C2_Witness ==
    /\ lastOp = "battery_level"
    /\ returned = None
    /\ DOMAIN lastMapping[lastEntity] = {"state"}

\* C3: update() always returns normally, having sent exactly one get_status
\* request, however the client signals the failure of the query.
C3_UpdateNeverRaises ==
    lastOp = "update" =>
        /\ ~raised
        /\ Len(sent) = 1
        /\ sent[1].command = "get_status"

\* the keyword the claim gives for each command operation
C4_Keyword ==
    [start |-> "app_start", pause |-> "app_stop", stop |-> "app_stop",
     return_to_base |-> "app_charge", clean_spot |-> "app_spot",
     locate |-> "find_me", start_pause |-> "app_pause"]

\* C4: each command operation sends exactly one request, carrying its fixed
\* keyword and no parameters, and hands nothing of the answer to the host.
C4_OneFixedKeyword ==
    lastOp \in DOMAIN C4_Keyword =>
        /\ Len(sent) = 1
        /\ sent[1].command = C4_Keyword[lastOp]
        /\ sent[1].params = None
        /\ returned = None

C4_Witness ==
    /\ lastOp = "pause"
    /\ IsDict(reply)
    /\ returned = None

\* C5: no operation other than update() changes any snapshot, whatever the
\* client answers.
C5_OnlyUpdateWrites ==
    [][lastOp' # "update" => _status' = _status]_vars

C5_Witness ==
    /\ lastOp = "stop"
    /\ IsDict(reply)
    /\ reply.v # _status[lastEntity]

\* C6: fan_speed_list returns each label of the fan-speed table exactly
\* once: none missing, none added, no duplicates.
C6_LabelsOnce ==
    lastOp = "fan_speed_list" =>
        /\ returned.t = "list"
        /\ Range(returned.v) = TableLabels(FAN_SPEEDS)
        /\ NoDuplicates(returned.v)

\* C7: set_fan_speed(L) sends exactly one set_custom_mode request whose
\* parameter list holds the codes of the table labelled L, all of them and
\* only them, each once; the list is empty when no code is labelled L.
C7_CodesOfLabel ==
    lastOp = "set_fan_speed" =>
        /\ Len(sent) = 1
        /\ sent[1].command = "set_custom_mode"
        /\ sent[1].params.t = "list"
        /\ Range(sent[1].params.v) =
              {FAN_SPEEDS[i][1] : i \in {j \in 1..Len(FAN_SPEEDS) : PyStr(FAN_SPEEDS[j][2]) = lastArg}}
        /\ NoDuplicates(sent[1].params.v)

C7_Witness ==
    /\ lastOp = "set_fan_speed"
    /\ Len(sent[1].params.v) = 2

C7_WitnessNoSuchLabel ==
    /\ lastOp = "set_fan_speed"
    /\ lastArg = PyStr("NoSuchLabel")
    /\ FAN_SPEEDS # <<>>
    /\ sent[1].params = PyList(<<>>)

\* C8: reading status, state, battery_level or fan_speed never raises;
\* status is None exactly when the snapshot has no state field or its code
\* is no key of the state table, fan_speed likewise for fan_power and the
\* fan-speed table, and battery_level is None exactly when the field is
\* missing.
C8_ReadsNeverRaise ==
    LET snapshot == _status[lastEntity]
    IN  /\ lastOp \in {"status", "state", "battery_level", "fan_speed"} => ~raised
        /\ lastOp \in {"status", "state"} =>
              (returned = None <=>
                  ("state" \notin DOMAIN snapshot
                   \/ snapshot["state"] \notin TableKeys(STATE_CODE_TO_STRING)))
        /\ lastOp = "fan_speed" =>
              (returned = None <=>
                  ("fan_power" \notin DOMAIN snapshot
                   \/ snapshot["fan_power"] \notin TableKeys(FAN_SPEEDS)))
        /\ lastOp = "battery_level" =>
              (returned = None <=> "battery" \notin DOMAIN snapshot)

C8_Witness ==
    /\ lastOp = "status"
    /\ returned = None
    /\ ~raised
    /\ "state" \in DOMAIN _status[lastEntity]

\* C9: every read of map sends one new get_map_v1 request and returns what
\* that request answered, so n reads have sent n requests.
C9_MapNeverCached ==
    /\ mapRequests = mapReads
    /\ lastOp = "map" =>
          /\ Len(sent) = 1
          /\ sent[1].command = "get_map_v1"
          /\ sent[1].params = None
          /\ ~raised => returned = reply

C9_Witness ==
    /\ lastOp = "map"
    /\ mapReads = 2
    /\ returned \in NonMappings

\* C10: every request carries the duid of the entity that sent it and
\* wait_for_response = TRUE, a step of one entity leaves the snapshots of
\* the others alone, and each snapshot is the last dict answered to that
\* entity's own update().
C10_EntitiesIsolated ==
    [][/\ \A r \in Range(sent') :
            r.duid = _device[lastEntity'].duid /\ r.wait_for_response = TRUE
       /\ \A b \in Entities : b # lastEntity' => _status'[b] = _status[b]
       /\ _status' = lastMapping']_vars

C10_Witness ==
    /\ lastOp = "update"
    /\ lastEntity = 2
    /\ IsDict(reply)
    /\ sent[1].duid = "duidB"
    /\ _status[1] # EmptyDict
    /\ _status[1] # _status[2]

====
